---- MODULE Spec2Model ----
(***************************************************************************)
(* A model of the pose-stream state machine of GARF-Demo: the class        *)
(* AssembleTask (src/unnamed/part_001) with its Transformation algebra,    *)
(* the streaming exchange it consumes, and the cursor / query API.         *)
(*                                                                         *)
(* Conventions.  JavaScript arrays are modelled as sequences; a fragment   *)
(* index or a step index of the program is 0-based and is shifted by one   *)
(* where a sequence is read.  Quaternions are scalar-first 4-tuples and    *)
(* translations 3-tuples of integers, so that the arithmetic is exact.     *)
(* A call that throws is modelled by the result <<>> and a call that       *)
(* returns v by <<v>>.                                                     *)
(***************************************************************************)
EXTENDS Integers, Sequences, FiniteSets, TLC

\* ------------------------------------------------------------------ bounds

\* Number of mesh files the task was constructed with (meshesFile.length).
NumFrag == 2
\* Largest number of optimization steps recorded in one run.
MaxHist == 2
\* Largest number of accepted startAssemble calls on the task.
MaxRuns == 2

\* ------------------------------------------------ Transformation algebra

Transformation(translation, quaternion) ==
    [translation |-> translation, quaternion |-> quaternion]

\* A product with its operands exchanged.
multiplyQuaternions_Swapped(q1, q2) ==
    LET w1 == q2[1]  x1 == q2[2]  y1 == q2[3]  z1 == q2[4]
        w2 == q1[1]  x2 == q1[2]  y2 == q1[3]  z2 == q1[4]
    IN  << w1 * w2 - x1 * x2 - y1 * y2 - z1 * z2,
           w1 * x2 + x1 * w2 + y1 * z2 - z1 * y2,
           w1 * y2 - x1 * z2 + y1 * w2 + z1 * x2,
           w1 * z2 + x1 * y2 - y1 * x2 + z1 * w2 >>

multiplyQuaternions(q1, q2) ==
    LET w1 == q1[1]  x1 == q1[2]  y1 == q1[3]  z1 == q1[4]
        w2 == q2[1]  x2 == q2[2]  y2 == q2[3]  z2 == q2[4]
    IN  << w1 * w2 - x1 * x2 - y1 * y2 - z1 * z2,
           w1 * x2 + x1 * w2 + y1 * z2 - z1 * y2,
           w1 * y2 - x1 * z2 + y1 * w2 + z1 * x2,
           w1 * z2 + x1 * y2 - y1 * x2 + z1 * w2 >>

rotateVector(q, v) ==
    LET qConjugate == << q[1], -q[2], -q[3], -q[4] >>
        vQuat == << 0, v[1], v[2], v[3] >>
        rotatedQuat == multiplyQuaternions(multiplyQuaternions(q, vQuat), qConjugate)
    IN  << rotatedQuat[2], rotatedQuat[3], rotatedQuat[4] >>

\* An inverse that forgets to negate the rotated translation.
inverse_NoNegation(t) ==
    LET qConjugate == << t.quaternion[1], -t.quaternion[2],
                         -t.quaternion[3], -t.quaternion[4] >>
        rotatedTranslation == rotateVector(qConjugate, t.translation)
    IN  Transformation(<< rotatedTranslation[1], rotatedTranslation[2],
                          rotatedTranslation[3] >>, qConjugate)

inverse(t) ==
    LET qConjugate == << t.quaternion[1], -t.quaternion[2],
                         -t.quaternion[3], -t.quaternion[4] >>
        rotatedTranslation == rotateVector(qConjugate, t.translation)
    IN  Transformation(<< -rotatedTranslation[1], -rotatedTranslation[2],
                          -rotatedTranslation[3] >>, qConjugate)

\* A composition that turns the other pose's translation by the other
\* pose's own quaternion.
applyTransformation_RotatesByOther(t, transformation) ==
    LET newQuaternion == multiplyQuaternions(t.quaternion, transformation.quaternion)
        rotatedTranslation == rotateVector(transformation.quaternion,
                                           transformation.translation)
    IN  Transformation(<< t.translation[1] + rotatedTranslation[1],
                          t.translation[2] + rotatedTranslation[2],
                          t.translation[3] + rotatedTranslation[3] >>, newQuaternion)

applyTransformation(t, transformation) ==
    LET newQuaternion == multiplyQuaternions(t.quaternion, transformation.quaternion)
        rotatedTranslation == rotateVector(t.quaternion, transformation.translation)
    IN  Transformation(<< t.translation[1] + rotatedTranslation[1],
                          t.translation[2] + rotatedTranslation[2],
                          t.translation[3] + rotatedTranslation[3] >>, newQuaternion)

\* The pose getTransformation builds for step -2.
IdentityPose == Transformation(<<0, 0, 0>>, <<1, 0, 0, 0>>)

\* What reading past the end of a JavaScript array yields.
Undefined == Transformation(<<>>, <<>>)

\* ------------------------------------------- what the backend can send

\* Poses the backend reports (translation, unit quaternion).
PoseA == Transformation(<<0, 0, 0>>, <<1, 0, 0, 0>>)
PoseB == Transformation(<<1, 0, 0>>, <<0, 1, 0, 0>>)
PoseC == Transformation(<<0, 2, 0>>, <<0, 0, 1, 0>>)
ServerPoses == << PoseA, PoseB, PoseC >>

\* The k-th list of per-fragment poses the backend can report.
PoseList(k) ==
    [i \in 1..NumFrag |-> ServerPoses[((k + i - 2) % Len(ServerPoses)) + 1]]

\* Point data is opaque to the task: one token per fragment.
PointsOf(k) == [i \in 1..NumFrag |-> 10 * k + i]

\* Payload ids of the "input" and the "transformation" messages.
InputIds == {2}
TransIds == {1, 2}
ScaleValues == {2}

\* data of an "input" message (AssembleInputMsg)
InputData(k) ==
    [initial_translation |-> [i \in 1..NumFrag |-> PoseList(k)[i].translation],
     initial_rotation    |-> [i \in 1..NumFrag |-> PoseList(k)[i].quaternion],
     pointclouds         |-> PointsOf(k)]

\* data of a "transformation" message (AssembleTransformationMsg)
TransformationData(k) ==
    [translation |-> [i \in 1..NumFrag |-> PoseList(k)[i].translation],
     rotation    |-> [i \in 1..NumFrag |-> PoseList(k)[i].quaternion]]

\* The envelope messages of the exchange: lifecycle records, data records
\* wrapping one tagged payload, and log records.
Msg(type, kind, id) == [type |-> type, kind |-> kind, id |-> id]

Messages ==
    { Msg("status", k, 0) : k \in {"pending", "generating", "error", "complete"} }
      \cup { Msg("data", "mesh_scale", v) : v \in ScaleValues }
      \cup { Msg("data", "input", k) : k \in InputIds }
      \cup { Msg("data", "fracture_segmentation", 1) }
      \cup { Msg("data", "transformation", k) : k \in TransIds }
      \cup { Msg("data", "metrics", 1) }
      \cup { Msg("log", "log", 0) }

\* The messages that drive the run state machine, the histories and the
\* cursor: all but the two payloads that only write meshScale and
\* fractureSurfaces.
CoreMessages ==
    { m \in Messages : m.kind \notin {"mesh_scale", "fracture_segmentation"} }

\* The run settings a caller passes to startAssemble.
SettingsSet ==
    { [steps |-> 2, maxIterations |-> 3, oneStepInit |-> TRUE] }

\* ------------------------------------------------------------------ state

VARIABLES
    status,                   \* AssembleTask.status
    initial_transformations,  \* one pose per fragment, from the "input" message
    originalTransformations,  \* raw poses, one entry per recorded step
    transformations,          \* normalized poses, one entry per recorded step
    pointClouds,              \* per-fragment point tokens
    fractureSurfaces,         \* per-fragment fracture-surface tokens
    currentStep,              \* AssembleTask._currentStep
    totalSteps,               \* AssembleTask._totalSteps
    meshScale,                \* AssembleTask.meshScale
    runs,                     \* number of accepted startAssemble calls
    loops,                    \* runs whose for-await loop is still consuming
    sawError,                 \* the latest run's loop is consuming and has handled a lifecycle "error"
    emitted,                  \* notifications emitted by the last operation
    lastOp,                   \* the last operation and whether it threw
    meshesFile,               \* names of the files the constructor was given
    pieces,                   \* AssembleTask.pieces
    meshObj,                  \* AssembleTask._meshObj: one render handle per fragment
    received,                 \* messages handled since the last accepted start
    stepLog,                  \* step indices notified while those were handled
    scaleWrites,              \* assignments to meshScale so far, by origin
    pose,                     \* a Transformation handed to the algebra
    roundTrip,                \* what the algebra returned for it
    meshesFilePathOnServer,   \* remote paths the constructor was given
    submitted,                \* the submit calls made: their number, the
                              \* settings the caller passed to the latest
                              \* and the arguments it sent
    operands,                 \* three poses a caller composes
    composed,                 \* what composing them returned
    assembling,               \* the application's 'assembling' flag
    listening                 \* whether the application's statusUpdate
                              \* listener is attached to this task

taskVars == << status, initial_transformations, originalTransformations,
               transformations, pointClouds, fractureSurfaces, currentStep,
               totalSteps, meshScale >>

\* What the constructor leaves on the task beside the fields above.
fileVars == << meshesFile, pieces, meshObj, meshesFilePathOnServer >>

\* Records of what has happened to the task, kept for the properties.
histVars == << received, stepLog, scaleWrites, submitted >>

\* Input and output of the Transformation algebra.
algVars == << pose, roundTrip, operands, composed >>

\* The state of the application around the task.
appVars == << assembling, listening >>

\* What the run state machine, the cursor and the queries never touch.
sceneVars == << meshesFile, pieces, meshObj, received, stepLog, scaleWrites,
                pose, roundTrip, meshesFilePathOnServer, submitted,
                operands, composed, assembling, listening >>

vars == << status, initial_transformations, originalTransformations,
           transformations, pointClouds, fractureSurfaces, currentStep,
           totalSteps, meshScale, runs, loops, sawError, emitted, lastOp,
           meshesFile, pieces, meshObj, received, stepLog, scaleWrites,
           pose, roundTrip, meshesFilePathOnServer, submitted,
           operands, composed, assembling, listening >>

\* A notification: the event name, the status argument of statusUpdate and
\* the remaining arguments.
Ev(name, st, args) == [name |-> name, status |-> st, args |-> args]

\* The last operation invoked on the task and whether it threw.
Op(op, threw) == [op |-> op, threw |-> threw]

\* ----------------------------------------------------------- construction

\* A file name is the sequence of its characters.
OBJ == << "o", "b", "j" >>
PLY == << "p", "l", "y" >>
FileName(stem, ext) == << stem, "." >> \o ext

\* The files of the task the run state machine is explored on.
Stems == << "a", "b", "c", "d" >>
DefaultFiles == [i \in 1..NumFrag |-> FileName(Stems[i], OBJ)]

\* A render handle that was not set yet (null), and a handle whose bounding
\* box has the largest extent size.
NullHandle == <<>>
Handle(size) == << size >>

\* No assignment to meshScale yet.
NoWrites == [backend |-> 0, client |-> 0]

\* No submit call yet.
NoSubmit == [count |-> 0, passed |-> <<>>, args |-> <<>>]

\* The position of the last "." of name, 0 when it has none.
LastDot(name) ==
    IF \E i \in 1..Len(name) : name[i] = "."
    THEN CHOOSE i \in 1..Len(name) :
            /\ name[i] = "."
            /\ \A j \in (i + 1)..Len(name) : name[j] # "."
    ELSE 0

\* name.split(".").slice(-1)[0]
Extension(name) == SubSeq(name, LastDot(name) + 1, Len(name))

\* name.endsWith(suffix)
endsWith(name, suffix) ==
    /\ Len(suffix) <= Len(name)
    /\ SubSeq(name, Len(name) - Len(suffix) + 1, Len(name)) = suffix

\* A constructor that accepts a single file.
ConstructorThrows_AcceptsOne(files) ==
    \/ Len(files) < 1
    \/ Extension(files[1]) \notin {OBJ, PLY}
    \/ ~ \A i \in 1..Len(files) : endsWith(files[i], Extension(files[1]))

\* Whether new AssembleTask(gradioClient, files) throws.
ConstructorThrows(files) ==
    \/ Len(files) < 2
    \/ Extension(files[1]) \notin {OBJ, PLY}
    \/ ~ \A i \in 1..Len(files) : endsWith(files[i], Extension(files[1]))

Init ==
    /\ meshesFile = DefaultFiles
    /\ pieces = DefaultFiles
    /\ meshObj = [i \in 1..NumFrag |-> NullHandle]
    /\ received = <<>>
    /\ stepLog = <<>>
    /\ scaleWrites = NoWrites
    /\ meshesFilePathOnServer = <<>>
    /\ submitted = NoSubmit
    /\ operands = <<>>
    /\ composed = <<>>
    /\ assembling = FALSE
    /\ listening = TRUE
    /\ pose = Transformation(<<0, 0, 0>>, <<1, 0, 0, 0>>)
    /\ roundTrip = <<>>
    /\ status = "INIT"
    /\ initial_transformations = <<>>
    /\ originalTransformations = <<>>
    /\ transformations = <<>>
    /\ pointClouds = <<>>
    /\ fractureSurfaces = <<>>
    /\ currentStep = -2
    /\ totalSteps = 0
    /\ meshScale = 1
    /\ runs = 0
    /\ loops = {}
    /\ sawError = FALSE
    /\ emitted = <<>>
    /\ lastOp = Op("new", FALSE)

\* ------------------------------------------------------- the constructor
\* new AssembleTask(gradioClient, meshesFile) for the lists of files a caller
\* can pass.

\* Largest number of files passed to the constructor.
MaxFiles == 3

\* File names: two of each supported type, one whose name merely ends with
\* a supported type, one of another type, one with two dots.
FileNames ==
    { FileName("a", OBJ), FileName("b", OBJ), FileName("c", PLY),
      FileName("d", << "x", "o", "b", "j" >>),
      FileName("e", << "t", "x", "t" >>),
      FileName("f", << "v", "2", "." >> \o PLY) }

FileLists == UNION { [1..n -> FileNames] : n \in 0..MaxFiles }

\* A caller holds a list of files; no task exists yet.  The fields show
\* their declared initial values.
NewInit ==
    /\ meshesFile \in FileLists
    /\ pieces = <<>>
    /\ meshObj = <<>>
    /\ lastOp = Op("files", FALSE)
    /\ status = "INIT"
    /\ initial_transformations = <<>>
    /\ originalTransformations = <<>>
    /\ transformations = <<>>
    /\ pointClouds = <<>>
    /\ fractureSurfaces = <<>>
    /\ currentStep = -2
    /\ totalSteps = 0
    /\ meshScale = 1
    /\ runs = 0
    /\ loops = {}
    /\ sawError = FALSE
    /\ emitted = <<>>
    /\ received = <<>>
    /\ stepLog = <<>>
    /\ scaleWrites = NoWrites
    /\ meshesFilePathOnServer = <<>>
    /\ submitted = NoSubmit
    /\ operands = <<>>
    /\ composed = <<>>
    /\ assembling = FALSE
    /\ listening = TRUE
    /\ pose = Transformation(<<0, 0, 0>>, <<1, 0, 0, 0>>)
    /\ roundTrip = <<>>

\* The constructor runs on the caller's files.
Construct ==
    /\ lastOp.op = "files"
    /\ IF ConstructorThrows(meshesFile)
       THEN /\ lastOp' = Op("new", TRUE)
            /\ UNCHANGED << pieces, meshObj >>
       ELSE /\ lastOp' = Op("new", FALSE)
            /\ meshObj' = [i \in 1..Len(meshesFile) |-> NullHandle]
            /\ pieces' = [i \in 1..Len(meshesFile) |-> meshesFile[i]]
    /\ UNCHANGED << taskVars, runs, loops, sawError, emitted, meshesFile,
                    meshesFilePathOnServer, histVars, algVars, appVars >>

NextNew == Construct

SpecNew == NewInit /\ [][NextNew]_vars

\* --------------------------------------------- the Transformation algebra
\* inverse and applyTransformation on the poses whose arithmetic is exact:
\* integer translations and the quaternion units.

\* Largest absolute value of a translation coordinate.
MaxCoord == 1

Coords == (0 - MaxCoord)..MaxCoord

\* The quaternions of norm 1 with integer components: 1, i, j, k and their
\* negatives.
UnitQuaternions ==
    { q \in [1..4 -> {-1, 0, 1}] :
        q[1] * q[1] + q[2] * q[2] + q[3] * q[3] + q[4] * q[4] = 1 }

AlgebraPoses ==
    { Transformation(<< x, y, z >>, q) :
        x \in Coords, y \in Coords, z \in Coords, q \in UnitQuaternions }

\* A caller holds a pose; the task plays no part.
AlgebraInit ==
    /\ pose \in AlgebraPoses
    /\ roundTrip = <<>>
    /\ lastOp = Op("pose", FALSE)
    /\ meshesFile = DefaultFiles
    /\ pieces = DefaultFiles
    /\ meshObj = [i \in 1..NumFrag |-> NullHandle]
    /\ status = "INIT"
    /\ initial_transformations = <<>>
    /\ originalTransformations = <<>>
    /\ transformations = <<>>
    /\ pointClouds = <<>>
    /\ fractureSurfaces = <<>>
    /\ currentStep = -2
    /\ totalSteps = 0
    /\ meshScale = 1
    /\ runs = 0
    /\ loops = {}
    /\ sawError = FALSE
    /\ emitted = <<>>
    /\ received = <<>>
    /\ stepLog = <<>>
    /\ scaleWrites = NoWrites
    /\ meshesFilePathOnServer = <<>>
    /\ submitted = NoSubmit
    /\ operands = <<>>
    /\ composed = <<>>
    /\ assembling = FALSE
    /\ listening = TRUE

\* The caller computes t.applyTransformation(t.inverse()) and
\* t.inverse().applyTransformation(t) for the pose t it holds.
RoundTrip ==
    /\ roundTrip = <<>>
    /\ roundTrip' = << applyTransformation(pose, inverse(pose)),
                       applyTransformation(inverse(pose), pose) >>
    /\ lastOp' = Op("roundTrip", FALSE)
    /\ UNCHANGED << taskVars, runs, loops, sawError, emitted, fileVars,
                    histVars, pose, operands, composed, appVars >>

NextAlgebra == RoundTrip

SpecAlgebra == AlgebraInit /\ [][NextAlgebra]_vars

\* ------------------------------------------------------ composing poses
\* applyTransformation on three poses a, b, c whose arithmetic is exact.

\* Largest translation coordinate of a composed pose.
MaxShift == 1

\* Translations along one axis.
AxisTranslations ==
    { <<0, 0, 0>> }
      \cup { << x, 0, 0 >> : x \in 1..MaxShift }
      \cup { << 0, x, 0 >> : x \in 1..MaxShift }
      \cup { << 0, 0, x >> : x \in 1..MaxShift }

\* The integer units, which turn by nothing or a half turn, and two integer
\* quaternions of squared norm 2, which turn by a quarter about x and y
\* (the class does not normalize: it computes q v q* whatever the norm).
ComposeQuaternions == UnitQuaternions \cup { <<1, 1, 0, 0>>, <<1, 0, 1, 0>> }

ComposePoses ==
    { Transformation(v, q) : v \in AxisTranslations, q \in ComposeQuaternions }

\* A caller holds three poses; the task plays no part.
ComposeInit ==
    /\ operands \in [1..3 -> ComposePoses]
    /\ composed = <<>>
    /\ lastOp = Op("operands", FALSE)
    /\ pose = Transformation(<<0, 0, 0>>, <<1, 0, 0, 0>>)
    /\ roundTrip = <<>>
    /\ meshesFile = DefaultFiles
    /\ pieces = DefaultFiles
    /\ meshObj = [i \in 1..NumFrag |-> NullHandle]
    /\ status = "INIT"
    /\ initial_transformations = <<>>
    /\ originalTransformations = <<>>
    /\ transformations = <<>>
    /\ pointClouds = <<>>
    /\ fractureSurfaces = <<>>
    /\ currentStep = -2
    /\ totalSteps = 0
    /\ meshScale = 1
    /\ runs = 0
    /\ loops = {}
    /\ sawError = FALSE
    /\ emitted = <<>>
    /\ received = <<>>
    /\ stepLog = <<>>
    /\ scaleWrites = NoWrites
    /\ meshesFilePathOnServer = <<>>
    /\ submitted = NoSubmit
    /\ assembling = FALSE
    /\ listening = TRUE

\* The caller computes a.applyTransformation(b), b.applyTransformation(a),
\* a.applyTransformation(b).applyTransformation(c) and
\* a.applyTransformation(b.applyTransformation(c)).  The method assigns to
\* neither this nor its argument.
Compose ==
    LET a == operands[1]
        b == operands[2]
        c == operands[3]
    IN  /\ composed = <<>>
        /\ composed' =
              [ab |-> applyTransformation(a, b),
               ba |-> applyTransformation(b, a),
               left |-> applyTransformation(applyTransformation(a, b), c),
               right |-> applyTransformation(a, applyTransformation(b, c))]
        /\ operands' = operands
        /\ lastOp' = Op("compose", FALSE)
        /\ UNCHANGED << taskVars, runs, loops, sawError, emitted, fileVars,
                        histVars, pose, roundTrip, appVars >>

NextCompose == Compose

SpecCompose == ComposeInit /\ [][NextCompose]_vars

\* ----------------------------------------------------------- startAssemble

\* A guard that forgets the PROGRESSING case.
AlreadyStarted_OmitsProgressing(s) == s \in {"REQUESTED", "QUEUED"}

\* The re-entrancy guard of startAssemble.
AlreadyStarted(s) == s \in {"REQUESTED", "QUEUED", "PROGRESSING"}

\* A total that forgets the one-step initialisation.
TotalStepsOf_NoInit(settings) == settings.steps * settings.maxIterations

TotalStepsOf(settings) ==
    settings.steps * settings.maxIterations
        + (IF settings.oneStepInit THEN 1 ELSE 0)

\* A startAssemble that leaves the initial poses of the previous run.
StartAssemble_KeepsInitialPoses(settings, opens) ==
    IF AlreadyStarted(status)
    THEN /\ lastOp' = Op("startAssemble", TRUE)
         /\ emitted' = <<>>
         /\ UNCHANGED << taskVars, runs, loops, sawError >>
    ELSE /\ runs < MaxRuns
         /\ status' = "REQUESTED"
         /\ transformations' = <<>>
         /\ originalTransformations' = <<>>
         /\ currentStep' = -2
         /\ totalSteps' = TotalStepsOf(settings)
         /\ emitted' = << Ev("statusUpdate", "REQUESTED", <<>>),
                          Ev("step", "", << -2, TotalStepsOf(settings) >>) >>
         /\ runs' = runs + 1
         /\ loops' = IF opens THEN loops \cup {runs + 1} ELSE loops
         /\ lastOp' = Op("startAssemble", ~opens)
         /\ sawError' = FALSE
         /\ UNCHANGED << initial_transformations, pointClouds,
                         fractureSurfaces, meshScale >>

\* A startAssemble that also drops the point data of the previous run.
StartAssemble_ClearsPointData(settings, opens) ==
    IF AlreadyStarted(status)
    THEN /\ lastOp' = Op("startAssemble", TRUE)
         /\ emitted' = <<>>
         /\ UNCHANGED << taskVars, runs, loops, sawError >>
    ELSE /\ runs < MaxRuns
         /\ status' = "REQUESTED"
         /\ transformations' = <<>>
         /\ originalTransformations' = <<>>
         /\ initial_transformations' = <<>>
         /\ pointClouds' = <<>>
         /\ fractureSurfaces' = <<>>
         /\ currentStep' = -2
         /\ totalSteps' = TotalStepsOf(settings)
         /\ emitted' = << Ev("statusUpdate", "REQUESTED", <<>>),
                          Ev("step", "", << -2, TotalStepsOf(settings) >>) >>
         /\ runs' = runs + 1
         /\ loops' = IF opens THEN loops \cup {runs + 1} ELSE loops
         /\ lastOp' = Op("startAssemble", ~opens)
         /\ sawError' = FALSE
         /\ UNCHANGED meshScale

\* startAssemble(settings) up to its first await.  opens says whether
\* gradioClient.submit returned an iterable (TRUE) or threw (FALSE).
StartAssemble(settings, opens) ==
    IF AlreadyStarted(status)
    THEN /\ lastOp' = Op("startAssemble", TRUE)
         /\ emitted' = <<>>
         /\ UNCHANGED << taskVars, runs, loops, sawError >>
    ELSE /\ runs < MaxRuns
         /\ status' = "REQUESTED"
         /\ transformations' = <<>>
         /\ originalTransformations' = <<>>
         /\ initial_transformations' = <<>>
         /\ currentStep' = -2
         /\ totalSteps' = TotalStepsOf(settings)
         /\ emitted' = << Ev("statusUpdate", "REQUESTED", <<>>),
                          Ev("step", "", << -2, TotalStepsOf(settings) >>) >>
         /\ runs' = runs + 1
         /\ loops' = IF opens THEN loops \cup {runs + 1} ELSE loops
         /\ lastOp' = Op("startAssemble", ~opens)
         /\ sawError' = FALSE
         /\ UNCHANGED << pointClouds, fractureSurfaces, meshScale >>

\* ------------------------------------------------- the message handlers
\* One iteration of the for-await loop of startAssemble, for the loop of
\* run r.  A handler that finishes keeps the loop consuming.

OnPending(r) ==
    /\ status' = "QUEUED"
    /\ emitted' = << Ev("statusUpdate", "QUEUED", <<>>) >>
    /\ UNCHANGED << initial_transformations, originalTransformations,
                    transformations, pointClouds, fractureSurfaces,
                    currentStep, totalSteps, meshScale, loops, sawError >>

\* A handler that reports the cursor itself as the step in progress.
OnGenerating_ReportsCursor(r) ==
    /\ status' = "PROGRESSING"
    /\ emitted' = << Ev("statusUpdate", "PROGRESSING",
                        << currentStep, totalSteps >>) >>
    /\ UNCHANGED << initial_transformations, originalTransformations,
                    transformations, pointClouds, fractureSurfaces,
                    currentStep, totalSteps, meshScale, loops, sawError >>

OnGenerating(r) ==
    /\ status' = "PROGRESSING"
    /\ emitted' = << Ev("statusUpdate", "PROGRESSING",
                        << currentStep + 1, totalSteps >>) >>
    /\ UNCHANGED << initial_transformations, originalTransformations,
                    transformations, pointClouds, fractureSurfaces,
                    currentStep, totalSteps, meshScale, loops, sawError >>

OnError(r) ==
    /\ status' = "FAILED"
    /\ emitted' = << Ev("statusUpdate", "FAILED", <<>>) >>
    /\ sawError' = (sawError \/ r = runs)
    /\ UNCHANGED << initial_transformations, originalTransformations,
                    transformations, pointClouds, fractureSurfaces,
                    currentStep, totalSteps, meshScale, loops >>

OnComplete(r) ==
    /\ status' = "COMPLETED"
    /\ emitted' = << Ev("statusUpdate", "COMPLETED", <<>>) >>
    /\ UNCHANGED << initial_transformations, originalTransformations,
                    transformations, pointClouds, fractureSurfaces,
                    currentStep, totalSteps, meshScale, loops, sawError >>

\* A handler that lets the larger scale win.
OnMeshScale_KeepsLarger(r, v) ==
    /\ IF v > meshScale
       THEN /\ meshScale' = v
            /\ emitted' = << Ev("meshScale", "", << v >>) >>
       ELSE /\ emitted' = <<>>
            /\ UNCHANGED meshScale
    /\ UNCHANGED << status, initial_transformations, originalTransformations,
                    transformations, pointClouds, fractureSurfaces,
                    currentStep, totalSteps, loops, sawError >>

OnMeshScale(r, v) ==
    /\ IF v # meshScale
       THEN /\ meshScale' = v
            /\ emitted' = << Ev("meshScale", "", << v >>) >>
       ELSE /\ emitted' = <<>>
            /\ UNCHANGED meshScale
    /\ UNCHANGED << status, initial_transformations, originalTransformations,
                    transformations, pointClouds, fractureSurfaces,
                    currentStep, totalSteps, loops, sawError >>

\* A handler that notifies step -1 but leaves the cursor where it was.
OnInput_CursorUnmoved(r, data) ==
    /\ initial_transformations' =
          [idx \in 1..Len(data.initial_translation) |->
              Transformation(data.initial_translation[idx],
                             data.initial_rotation[idx])]
    /\ pointClouds' = data.pointclouds
    /\ emitted' = << Ev("recvPointClouds", "", data.pointclouds),
                     Ev("step", "", << -1, totalSteps >>) >>
    /\ UNCHANGED << status, originalTransformations, transformations,
                    fractureSurfaces, currentStep, totalSteps, meshScale,
                    loops, sawError >>

OnInput(r, data) ==
    /\ initial_transformations' =
          [idx \in 1..Len(data.initial_translation) |->
              Transformation(data.initial_translation[idx],
                             data.initial_rotation[idx])]
    /\ pointClouds' = data.pointclouds
    /\ currentStep' = -1
    /\ emitted' = << Ev("recvPointClouds", "", data.pointclouds),
                     Ev("step", "", << -1, totalSteps >>) >>
    /\ UNCHANGED << status, originalTransformations, transformations,
                    fractureSurfaces, totalSteps, meshScale, loops, sawError >>

\* The largest history length at which a fracture segmentation is kept.
FractureStepLimit == 5

\* A handler that already drops the segmentation at the limit itself.
OnFractureSegmentation_StrictLimit(r, data) ==
    /\ IF Len(transformations) < FractureStepLimit
       THEN /\ fractureSurfaces' = data
            /\ emitted' = << Ev("recvFractureSurfaces", "", data) >>
       ELSE /\ emitted' = <<>>
            /\ UNCHANGED fractureSurfaces
    /\ UNCHANGED << status, initial_transformations, originalTransformations,
                    transformations, pointClouds, currentStep, totalSteps,
                    meshScale, loops, sawError >>

OnFractureSegmentation(r, data) ==
    /\ IF Len(transformations) <= FractureStepLimit
       THEN /\ fractureSurfaces' = data
            /\ emitted' = << Ev("recvFractureSurfaces", "", data) >>
       ELSE /\ emitted' = <<>>
            /\ UNCHANGED fractureSurfaces
    /\ UNCHANGED << status, initial_transformations, originalTransformations,
                    transformations, pointClouds, currentStep, totalSteps,
                    meshScale, loops, sawError >>

\* Whether the "transformation" handler throws: it reads
\* initial_transformations[idx].inverse() for every idx of the message, and
\* calling a method of undefined is a TypeError.
TransformationThrows(data) ==
    \E idx \in 1..Len(data.translation) : idx > Len(initial_transformations)

\* Poses composed with the initial pose itself.
NormalizedOf_NoInverse(data) ==
    [idx \in 1..Len(data.translation) |->
        applyTransformation(
            Transformation(data.translation[idx], data.rotation[idx]),
            initial_transformations[idx])]

\* The normalized poses the handler computes.
NormalizedOf(data) ==
    [idx \in 1..Len(data.translation) |->
        applyTransformation(
            Transformation(data.translation[idx], data.rotation[idx]),
            inverse(initial_transformations[idx]))]

\* The raw poses the handler computes.
OriginalOf(data) ==
    [idx \in 1..Len(data.translation) |->
        Transformation(data.translation[idx], data.rotation[idx])]

\* A handler that takes the history length after the push for the new index.
OnTransformation_StepOneBased(r, data) ==
    /\ transformations' = Append(transformations, NormalizedOf(data))
    /\ originalTransformations' = Append(originalTransformations, OriginalOf(data))
    /\ currentStep' = Len(transformations) + 1
    /\ emitted' = << Ev("step", "", << Len(transformations) + 1, totalSteps >>) >>
    /\ UNCHANGED << status, initial_transformations, pointClouds,
                    fractureSurfaces, totalSteps, meshScale, loops, sawError >>

OnTransformation(r, data) ==
    /\ transformations' = Append(transformations, NormalizedOf(data))
    /\ originalTransformations' = Append(originalTransformations, OriginalOf(data))
    /\ currentStep' = Len(transformations) + 1 - 1
    /\ emitted' = << Ev("step", "", << Len(transformations) + 1 - 1, totalSteps >>) >>
    /\ UNCHANGED << status, initial_transformations, pointClouds,
                    fractureSurfaces, totalSteps, meshScale, loops, sawError >>

OnMetrics(r, data) ==
    /\ emitted' = << Ev("recvMetrics", "", << data >>) >>
    /\ UNCHANGED << taskVars, loops, sawError >>

OnLog(r) ==
    /\ emitted' = <<>>
    /\ UNCHANGED << taskVars, loops, sawError >>

\* A throw inside the loop body rejects the promise of startAssemble: the
\* loop of run r stops consuming and nothing else happens.
LoopDies(r) ==
    /\ loops' = loops \ {r}
    /\ sawError' = (sawError /\ r # runs)
    /\ emitted' = <<>>
    /\ UNCHANGED taskVars

\* The loop of run r receives message m.
Deliver(r, m) ==
    /\ r \in loops
    /\ m \in Messages
    /\ runs' = runs
    /\ IF m.kind = "transformation"
       THEN IF TransformationThrows(TransformationData(m.id))
            THEN /\ LoopDies(r)
                 /\ lastOp' = Op("msg", TRUE)
            ELSE /\ Len(transformations) < MaxHist
                 /\ OnTransformation(r, TransformationData(m.id))
                 /\ lastOp' = Op("msg", FALSE)
       ELSE /\ lastOp' = Op("msg", FALSE)
            /\ CASE m.kind = "pending"    -> OnPending(r)
                 [] m.kind = "generating" -> OnGenerating(r)
                 [] m.kind = "error"      -> OnError(r)
                 [] m.kind = "complete"   -> OnComplete(r)
                 [] m.kind = "mesh_scale" -> OnMeshScale(r, m.id)
                 [] m.kind = "input"      -> OnInput(r, InputData(m.id))
                 [] m.kind = "fracture_segmentation" ->
                        OnFractureSegmentation(r, PointsOf(m.id))
                 [] m.kind = "metrics"    -> OnMetrics(r, m.id)
                 [] m.kind = "log"        -> OnLog(r)

\* An end of the exchange that fails a run still in flight.
ExchangeEnds_FailsRunning(r) ==
    /\ r \in loops
    /\ loops' = loops \ {r}
    /\ IF status \in {"REQUESTED", "QUEUED", "PROGRESSING"}
       THEN /\ status' = "FAILED"
            /\ emitted' = << Ev("statusUpdate", "FAILED", <<>>) >>
       ELSE /\ emitted' = <<>>
            /\ UNCHANGED status
    /\ sawError' = (sawError /\ r # runs)
    /\ lastOp' = Op("end", FALSE)
    /\ UNCHANGED << initial_transformations, originalTransformations,
                    transformations, pointClouds, fractureSurfaces,
                    currentStep, totalSteps, meshScale, runs >>

\* The iterator of run r reports done: the loop ends and startAssemble
\* resolves.
ExchangeEnds(r) ==
    /\ r \in loops
    /\ loops' = loops \ {r}
    /\ emitted' = <<>>
    /\ sawError' = (sawError /\ r # runs)
    /\ lastOp' = Op("end", FALSE)
    /\ UNCHANGED << taskVars, runs >>

\* The iterator of run r rejects while the next message is awaited (a
\* transport failure): no handler surrounds the loop, so startAssemble
\* rejects.
ExchangeRejects(r) ==
    /\ r \in loops
    /\ loops' = loops \ {r}
    /\ emitted' = <<>>
    /\ sawError' = (sawError /\ r # runs)
    /\ lastOp' = Op("reject", TRUE)
    /\ UNCHANGED << taskVars, runs >>

\* ------------------------------------------------------ cursor and queries

\* A guard that lets the step one past the recorded history through.
InvalidStep_OffByOne(step) == step < -2 \/ step > Len(transformations)

\* The guard of the currentStep setter.
InvalidStep(step) == step < -2 \/ step >= Len(transformations)

\* A setter that moves the cursor without notifying.
SetCurrentStep_NoEmit(step) ==
    /\ IF InvalidStep(step)
       THEN /\ lastOp' = Op("setStep", TRUE)
            /\ UNCHANGED currentStep
       ELSE /\ lastOp' = Op("setStep", FALSE)
            /\ currentStep' = step
    /\ emitted' = <<>>
    /\ UNCHANGED << status, initial_transformations, originalTransformations,
                    transformations, pointClouds, fractureSurfaces,
                    totalSteps, meshScale, runs, loops, sawError >>

\* A setter that notifies before it assigns.
SetCurrentStep_EmitsFirst(step) ==
    /\ IF InvalidStep(step)
       THEN /\ lastOp' = Op("setStep", TRUE)
            /\ emitted' = <<>>
            /\ UNCHANGED currentStep
       ELSE /\ lastOp' = Op("setStep", FALSE)
            /\ currentStep' = step
            /\ emitted' = << Ev("step", "", << currentStep, totalSteps >>) >>
    /\ UNCHANGED << status, initial_transformations, originalTransformations,
                    transformations, pointClouds, fractureSurfaces,
                    totalSteps, meshScale, runs, loops, sawError >>

SetCurrentStep(step) ==
    /\ IF InvalidStep(step)
       THEN /\ lastOp' = Op("setStep", TRUE)
            /\ emitted' = <<>>
            /\ UNCHANGED currentStep
       ELSE /\ lastOp' = Op("setStep", FALSE)
            /\ currentStep' = step
            /\ emitted' = << Ev("step", "", << step, totalSteps >>) >>
    /\ UNCHANGED << status, initial_transformations, originalTransformations,
                    transformations, pointClouds, fractureSurfaces,
                    totalSteps, meshScale, runs, loops, sawError >>

\* JavaScript's a[i] for a 0-based index i.
ElementAt(a, i) == IF i + 1 \in 1..Len(a) THEN <<a[i + 1]>> ELSE <<>>

\* A query that answers step -1 with the initial pose itself.
getTransformation_NoInverse(index, step) ==
    IF step = -2 THEN << Transformation(<<0, 0, 0>>, <<1, 0, 0, 0>>) >>
    ELSE IF step = -1
         THEN ElementAt(initial_transformations, index)
         ELSE IF ElementAt(transformations, step) = <<>>
              THEN <<>>
              ELSE ElementAt(ElementAt(transformations, step)[1], index)

\* getTransformation(index, step): <<pose>> when it returns, <<>> when it
\* throws.  A fragment index past the end of a recorded entry reads undefined.
getTransformation(index, step) ==
    IF step = -2 THEN << Transformation(<<0, 0, 0>>, <<1, 0, 0, 0>>) >>
    ELSE IF step = -1
         THEN IF ElementAt(initial_transformations, index) = <<>>
              THEN <<>>
              ELSE << inverse(ElementAt(initial_transformations, index)[1]) >>
         ELSE IF ElementAt(transformations, step) = <<>>
              THEN <<>>
              ELSE IF ElementAt(ElementAt(transformations, step)[1], index) = <<>>
                   THEN << Undefined >>
                   ELSE ElementAt(ElementAt(transformations, step)[1], index)

\* getTransformation(index) with the step omitted.
getTransformationAtCursor(index) == getTransformation(index, currentStep)

\* A caller invokes getTransformation(index, step).
GetTransformation(index, step) ==
    /\ lastOp' = Op("getTransformation", getTransformation(index, step) = <<>>)
    /\ emitted' = <<>>
    /\ UNCHANGED << taskVars, runs, loops, sawError >>

\* A caller invokes getTransformation(index), the step left out.
GetTransformationAtCursor(index) ==
    /\ lastOp' = Op("getTransformation", getTransformationAtCursor(index) = <<>>)
    /\ emitted' = <<>>
    /\ UNCHANGED << taskVars, runs, loops, sawError >>

\* getFractureSurface(index): the points of a fragment, [] when there are
\* none.
getFractureSurface(index) ==
    IF ElementAt(fractureSurfaces, index) = <<>>
    THEN <<>>
    ELSE << ElementAt(fractureSurfaces, index)[1] >>

\* getPointCloud(index): the points of a fragment, [] when there are none.
getPointCloud(index) ==
    IF ElementAt(pointClouds, index) = <<>>
    THEN <<>>
    ELSE << ElementAt(pointClouds, index)[1] >>

\* A query that returns the newest entry first.
getTransformations_NewestFirst(index) ==
    [s \in 1..Len(transformations) |->
        LET entry == transformations[Len(transformations) + 1 - s]
        IN  IF ElementAt(entry, index) = <<>>
            THEN Undefined
            ELSE ElementAt(entry, index)[1]]

\* getTransformations(index)
getTransformations(index) ==
    [s \in 1..Len(transformations) |->
        IF ElementAt(transformations[s], index) = <<>>
        THEN Undefined
        ELSE ElementAt(transformations[s], index)[1]]

\* A caller invokes getTransformations(index).
GetTransformations(index) ==
    /\ lastOp' = Op("getTransformations", FALSE)
    /\ emitted' = <<>>
    /\ UNCHANGED << taskVars, runs, loops, sawError >>

\* --------------------------------------------------------- specification

\* The steps a caller can ask the setter for.
StepInputs == -3..MaxHist

\* The fragment indices a caller passes (0-based).
FragmentIndices == 0..(NumFrag - 1)

Next ==
    \/ \E settings \in SettingsSet, opens \in BOOLEAN :
          StartAssemble(settings, opens) /\ UNCHANGED sceneVars
    \/ \E r \in 1..MaxRuns, m \in CoreMessages :
          Deliver(r, m) /\ UNCHANGED sceneVars
    \/ \E r \in 1..MaxRuns : ExchangeEnds(r) /\ UNCHANGED sceneVars
    \/ \E r \in 1..MaxRuns : ExchangeRejects(r) /\ UNCHANGED sceneVars
    \/ \E step \in StepInputs : SetCurrentStep(step) /\ UNCHANGED sceneVars
    \/ \E index \in FragmentIndices, step \in StepInputs :
          GetTransformation(index, step) /\ UNCHANGED sceneVars
    \/ \E index \in FragmentIndices :
          GetTransformationAtCursor(index) /\ UNCHANGED sceneVars

Spec == Init /\ [][Next]_vars

\* ------------------------------------------------- one run, with its log
\* The same task, observed: the messages whose handler ran to its end since
\* the last accepted start are kept in received, and the step indices they
\* notified in stepLog.

\* Largest number of messages logged in one run.
MaxMsgs == 4

\* The messages of a run that records poses and ends.
RunMessages ==
    { m \in Messages : m.kind \in {"generating", "input", "transformation", "complete"} }

IsStep(e) == e.name = "step"

\* The step indices of the step notifications among evs, in order.
StepsOf(evs) ==
    LET steps == SelectSeq(evs, IsStep)
    IN  [i \in 1..Len(steps) |-> steps[i].args[1]]

\* [...translation, ...quaternion]
Flat(tr) == tr.translation \o tr.quaternion

\* names.join(",")
RECURSIVE Join(_)
Join(names) ==
    IF names = <<>> THEN <<>>
    ELSE IF Len(names) = 1 THEN names[1]
         ELSE names[1] \o << "," >> \o Join(Tail(names))

\* An export that writes the normalized poses.
exportJson_Normalized(name) ==
    [name |-> name,
     num_parts |-> Len(meshesFile),
     gt_trans_rots |->
        [i \in 1..Len(initial_transformations) |-> Flat(initial_transformations[i])],
     pred_trans_rots |->
        [s \in 1..Len(transformations) |->
            [i \in 1..Len(transformations[s]) |-> Flat(transformations[s][i])]],
     removal_pieces |-> "",
     redundant_pieces |-> "",
     pieces |-> Join(pieces),
     mesh_scale |-> meshScale,
     pointclouds |-> pointClouds]

\* exportJson(name): the document, as the value its JSON text denotes (every
\* number of the model is a finite integer, which JSON.stringify writes
\* without loss).
exportJson(name) ==
    [name |-> name,
     num_parts |-> Len(meshesFile),
     gt_trans_rots |->
        [i \in 1..Len(initial_transformations) |-> Flat(initial_transformations[i])],
     pred_trans_rots |->
        [s \in 1..Len(originalTransformations) |->
            [i \in 1..Len(originalTransformations[s]) |->
                Flat(originalTransformations[s][i])]],
     removal_pieces |-> "",
     redundant_pieces |-> "",
     pieces |-> Join(pieces),
     mesh_scale |-> meshScale,
     pointclouds |-> pointClouds]

\* The name the caller exports under.
ExportNames == { << "d", "e", "m", "o" >> }

\* An export that releases the point clouds once they are written and
\* announces itself.
ExportJson_ReleasesPointClouds(name) ==
    /\ lastOp' = Op("exportJson", FALSE)
    /\ emitted' = << Ev("exported", "", <<>>) >>
    /\ pointClouds' = <<>>
    /\ UNCHANGED << status, initial_transformations, originalTransformations,
                    transformations, fractureSurfaces, currentStep, totalSteps,
                    meshScale, runs, loops, sawError >>

\* A caller invokes exportJson(name).
ExportJson(name) ==
    /\ lastOp' = Op("exportJson", FALSE)
    /\ emitted' = <<>>
    /\ UNCHANGED << taskVars, runs, loops, sawError >>

\* startAssemble, logged: an accepted call starts a new log.
RunStart(settings, opens) ==
    /\ StartAssemble(settings, opens)
    /\ IF AlreadyStarted(status)
       THEN UNCHANGED << received, stepLog >>
       ELSE received' = <<>> /\ stepLog' = <<>>
    /\ UNCHANGED << fileVars, scaleWrites, submitted, algVars, appVars >>

\* One message, logged when its handler ran to its end.
RunDeliver(r, m) ==
    /\ Len(received) < MaxMsgs
    /\ Deliver(r, m)
    /\ IF lastOp'.threw
       THEN UNCHANGED << received, stepLog >>
       ELSE /\ received' = Append(received, m)
            /\ stepLog' = stepLog \o StepsOf(emitted')
    /\ UNCHANGED << fileVars, scaleWrites, submitted, algVars, appVars >>

NextRun ==
    \/ \E settings \in SettingsSet, opens \in BOOLEAN : RunStart(settings, opens)
    \/ \E r \in 1..MaxRuns, m \in RunMessages : RunDeliver(r, m)
    \/ \E r \in 1..MaxRuns : ExchangeEnds(r) /\ UNCHANGED sceneVars
    \/ \E name \in ExportNames : ExportJson(name) /\ UNCHANGED sceneVars
    \/ \E index \in FragmentIndices :
          GetTransformations(index) /\ UNCHANGED sceneVars

SpecRun == Init /\ [][NextRun]_vars

\* ------------------------------------------- fracture surfaces in a long run
\* A run that records more steps than the fracture-segmentation limit.

\* Largest number of optimization steps recorded in a long run.
LongHist == 6

\* Payload ids of the "fracture_segmentation" messages.
FractureIds == {1, 2}

\* Payload ids of the "input" messages of a long run: the initial poses can
\* arrive twice, with different values.
LongInputIds == {1, 2}

\* The messages of a long run: the initial poses, one optimization step,
\* the fracture segmentations and the end of the run.
LongRunMessages ==
    { Msg("status", "complete", 0) }
      \cup { Msg("data", "input", k) : k \in LongInputIds }
      \cup { Msg("data", "transformation", 1) }
      \cup { Msg("data", "fracture_segmentation", k) : k \in FractureIds }

\* The loop of run r receives message m of a long run.
DeliverLong(r, m) ==
    /\ r \in loops
    /\ m \in LongRunMessages
    /\ runs' = runs
    /\ IF m.kind = "transformation"
       THEN IF TransformationThrows(TransformationData(m.id))
            THEN /\ LoopDies(r)
                 /\ lastOp' = Op("msg", TRUE)
            ELSE /\ Len(transformations) < LongHist
                 /\ OnTransformation(r, TransformationData(m.id))
                 /\ lastOp' = Op("msg", FALSE)
       ELSE /\ lastOp' = Op("msg", FALSE)
            /\ CASE m.kind = "complete" -> OnComplete(r)
                 [] m.kind = "input" -> OnInput(r, InputData(m.id))
                 [] m.kind = "fracture_segmentation" ->
                        OnFractureSegmentation(r, PointsOf(m.id))

NextFracture ==
    \/ \E settings \in SettingsSet, opens \in BOOLEAN :
          StartAssemble(settings, opens) /\ UNCHANGED sceneVars
    \/ \E r \in 1..MaxRuns, m \in LongRunMessages :
          DeliverLong(r, m) /\ UNCHANGED sceneVars

SpecFracture == Init /\ [][NextFracture]_vars

\* ------------------------------------------------ the scale of the meshes
\* meshScale has two writers: the "mesh_scale" message of the backend and
\* setObject, which the view of a fragment calls when its geometry is loaded
\* (part_004, lines 175-177) and again whenever it is mounted anew.

\* Largest number of meshScale assignments counted per writer.
MaxScaleWrites == 2

\* The largest bounding-box extents of the geometries the views load; 0 is
\* a geometry smaller than the unit.
ObjectSizes == {0, 3}

\* The messages that matter to the scale: the backend's scale and the end
\* of a run.
ScaleMessages ==
    { Msg("status", "complete", 0) }
      \cup { Msg("data", "mesh_scale", v) : v \in ScaleValues }

\* The largest extent alone.
MaxSize_NoFloor(objs) ==
    LET sizes == { objs[i][1] : i \in 1..Len(objs) }
    IN  CHOOSE m \in sizes : \A n \in sizes : n <= m

\* maxSize of setObject: the largest extent, and at least 1.0.
MaxSize(objs) ==
    LET sizes == {1} \cup { objs[i][1] : i \in 1..Len(objs) }
    IN  CHOOSE m \in sizes : \A n \in sizes : n <= m

\* setObject(index, obj), obj a geometry whose largest extent is size.
SetObject(index, size) ==
    LET objs == [meshObj EXCEPT ![index + 1] = Handle(size)]
    IN  /\ index + 1 \in 1..Len(meshObj)
        /\ meshObj' = objs
        /\ IF \A i \in 1..Len(objs) : objs[i] # NullHandle
           THEN /\ scaleWrites.client < MaxScaleWrites
                /\ meshScale' = MaxSize(objs)
                /\ emitted' = << Ev("meshScale", "", << MaxSize(objs) >>) >>
                /\ scaleWrites' = [scaleWrites EXCEPT !.client = @ + 1]
           ELSE /\ emitted' = <<>>
                /\ UNCHANGED << meshScale, scaleWrites >>
        /\ lastOp' = Op("setObject", FALSE)
        /\ UNCHANGED << status, initial_transformations, originalTransformations,
                        transformations, pointClouds, fractureSurfaces,
                        currentStep, totalSteps, runs, loops, sawError,
                        meshesFile, pieces, meshesFilePathOnServer,
                        received, stepLog, submitted, algVars, appVars >>

\* One message, an assignment to meshScale counted.
ScaleDeliver(r, m) ==
    /\ Deliver(r, m)
    /\ IF meshScale' # meshScale
       THEN /\ scaleWrites.backend < MaxScaleWrites
            /\ scaleWrites' = [scaleWrites EXCEPT !.backend = @ + 1]
       ELSE UNCHANGED scaleWrites
    /\ UNCHANGED << fileVars, received, stepLog, submitted, algVars, appVars >>

NextScale ==
    \/ \E settings \in SettingsSet, opens \in BOOLEAN :
          StartAssemble(settings, opens) /\ UNCHANGED sceneVars
    \/ \E r \in 1..MaxRuns, m \in ScaleMessages : ScaleDeliver(r, m)
    \/ \E index \in FragmentIndices, size \in ObjectSizes : SetObject(index, size)

SpecScale == Init /\ [][NextScale]_vars

\* ------------------------------------------------------ what is sent
\* startAssemble as the caller of gradioClient.submit: which settings and
\* which argument list the exchange is opened with.

\* The optional settings fields.
OptionalFields == {"loraCheckpoint", "ckpt"}

\* settings with one more field.
WithField(settings, field, value) ==
    [f \in DOMAIN settings \cup {field} |->
        IF f = field THEN value ELSE settings[f]]

\* Settings without the optional fields.
BaseSettings(steps, oneStepInit) ==
    [samplePoints |-> 5000, steps |-> steps, seed |-> 42, maxIterations |-> 3,
     oneStepInit |-> oneStepInit, sampleStrategy |-> "poisson",
     dataCollection |-> TRUE]

\* The settings a caller passes: each optional field missing, empty or
\* filled, and totals that differ.
CallerSettings ==
    { BaseSettings(1, FALSE),
      WithField(WithField(BaseSettings(2, TRUE), "loraCheckpoint", ""),
                "ckpt", ""),
      WithField(WithField(BaseSettings(2, FALSE), "loraCheckpoint", "lora"),
                "ckpt", ""),
      WithField(BaseSettings(1, TRUE), "ckpt", "base"),
      WithField(WithField(BaseSettings(2, TRUE), "loraCheckpoint", "lora"),
                "ckpt", "base"),
      WithField(BaseSettings(2, FALSE), "loraCheckpoint", "") }

\* settings after the two deletes that forget ckpt.
SentSettings_KeepsCkpt(settings) ==
    LET dropped == { f \in {"loraCheckpoint"} \cap DOMAIN settings :
                        settings[f] = "" }
    IN  [f \in DOMAIN settings \ dropped |-> settings[f]]

\* settings after `if (!settings.x) delete settings.x` for both optional
\* fields: a missing or empty field is absent.
SentSettings(settings) ==
    LET dropped == { f \in OptionalFields \cap DOMAIN settings :
                        settings[f] = "" }
    IN  [f \in DOMAIN settings \ dropped |-> settings[f]]

\* The remote path of a pre-uploaded file.
RemotePath(file) == << "g", "/" >> \o file

\* What a caller passes as meshesFilePathOnServer: nothing (the default),
\* one remote path per file, or the path of the first file only.
RemotePathLists ==
    { <<>>,
      [i \in 1..Len(DefaultFiles) |-> RemotePath(DefaultFiles[i])],
      << RemotePath(DefaultFiles[1]) >> }

\* this.meshType
meshType == Extension(meshesFile[1])

\* An argument list that always carries the files.
SubmitArgs_AlwaysFiles(settings) ==
    << << meshesFile >>, <<>>, meshType, SentSettings(settings) >>

\* The arguments of gradioClient.submit("/inference", ...); the first is
\* << >> for undefined and << files >> for a list of files.
SubmitArgs(settings) ==
    IF Len(meshesFilePathOnServer) = Len(meshesFile)
    THEN << <<>>, meshesFilePathOnServer, meshType, SentSettings(settings) >>
    ELSE << << meshesFile >>, <<>>, meshType, SentSettings(settings) >>

\* A task constructed with or without remote paths.
SubmitInit ==
    /\ meshesFile = DefaultFiles
    /\ pieces = DefaultFiles
    /\ meshObj = [i \in 1..NumFrag |-> NullHandle]
    /\ received = <<>>
    /\ stepLog = <<>>
    /\ scaleWrites = NoWrites
    /\ meshesFilePathOnServer \in RemotePathLists
    /\ submitted = NoSubmit
    /\ operands = <<>>
    /\ composed = <<>>
    /\ assembling = FALSE
    /\ listening = TRUE
    /\ pose = Transformation(<<0, 0, 0>>, <<1, 0, 0, 0>>)
    /\ roundTrip = <<>>
    /\ status = "INIT"
    /\ initial_transformations = <<>>
    /\ originalTransformations = <<>>
    /\ transformations = <<>>
    /\ pointClouds = <<>>
    /\ fractureSurfaces = <<>>
    /\ currentStep = -2
    /\ totalSteps = 0
    /\ meshScale = 1
    /\ runs = 0
    /\ loops = {}
    /\ sawError = FALSE
    /\ emitted = <<>>
    /\ lastOp = Op("new", FALSE)

\* startAssemble(settings), the submit call recorded.
SubmitStart(settings, opens) ==
    /\ StartAssemble(settings, opens)
    /\ submitted' =
          IF AlreadyStarted(status)
          THEN submitted
          ELSE [count |-> submitted.count + 1, passed |-> settings,
                args |-> SubmitArgs(settings)]
    /\ UNCHANGED << fileVars, received, stepLog, scaleWrites, algVars, appVars >>

\* The messages of a short run.
SubmitMessages ==
    { Msg("status", "complete", 0), Msg("data", "input", 2),
      Msg("data", "transformation", 1) }

NextSubmit ==
    \/ \E settings \in CallerSettings, opens \in BOOLEAN :
          SubmitStart(settings, opens)
    \/ \E r \in 1..MaxRuns, m \in SubmitMessages :
          Deliver(r, m) /\ UNCHANGED sceneVars
    \/ \E step \in StepInputs : SetCurrentStep(step) /\ UNCHANGED sceneVars

SpecSubmit == SubmitInit /\ [][NextSubmit]_vars

\* ------------------------------------------------------ the application
\* App around one task: the Assemble button, the 'assembling' flag, the
\* statusUpdate listener the effect attaches to the current task, and a
\* gallery selection that makes another task the current one.

\* The lifecycle messages the application's listener tells apart.
AppMessages ==
    { Msg("status", k, 0) : k \in {"pending", "error", "complete"} }

\* onAssembleStatusUpdate calls setAssembling(false) for COMPLETED and
\* FAILED.
Finished(evs) ==
    \E k \in 1..Len(evs) :
       evs[k].name = "statusUpdate" /\ evs[k].status \in {"COMPLETED", "FAILED"}

\* A click on Assemble: ignored while assembling (the button is disabled),
\* otherwise the flag is set and startAssemble is called, its promise
\* dropped.
PressAssemble(settings, opens) ==
    /\ listening
    /\ ~assembling
    /\ assembling' = TRUE
    /\ StartAssemble(settings, opens)
    /\ UNCHANGED << listening, fileVars, histVars, algVars >>

\* A message of the task's exchange; the listener, if still attached,
\* sees the notifications.
AppDeliver(r, m) ==
    /\ Deliver(r, m)
    /\ assembling' = IF listening /\ Finished(emitted') THEN FALSE ELSE assembling
    /\ UNCHANGED << listening, fileVars, histVars, algVars >>

\* The user picks a gallery entry while the run is in flight (the gallery
\* link is never disabled): setAssembleTask makes a new task the current
\* one and the effect moves the listener to it.  The run of this task goes
\* on unheard.
SelectFromGallery ==
    /\ listening
    /\ assembling
    /\ listening' = FALSE
    /\ lastOp' = Op("gallery", FALSE)
    /\ emitted' = <<>>
    /\ UNCHANGED << taskVars, runs, loops, sawError, assembling, fileVars,
                    histVars, algVars >>

NextApp ==
    \/ \E settings \in SettingsSet, opens \in BOOLEAN :
          PressAssemble(settings, opens)
    \/ \E r \in 1..MaxRuns, m \in AppMessages : AppDeliver(r, m)
    \/ \E r \in 1..MaxRuns : ExchangeEnds(r) /\ UNCHANGED sceneVars
    \/ \E r \in 1..MaxRuns : ExchangeRejects(r) /\ UNCHANGED sceneVars
    \/ SelectFromGallery

\* Every exchange that was opened ends, by itself or by a failure.
ExchangeStops ==
    \E r \in 1..MaxRuns :
       (ExchangeEnds(r) \/ ExchangeRejects(r)) /\ UNCHANGED sceneVars

SpecApp == Init /\ [][NextApp]_vars /\ WF_vars(ExchangeStops)

\* ------------------------------------------------------ the step scrubber
\* The slider of AssemblyScene.  The scene mirrors the last step
\* notification: the slider is disabled until one arrived (the first is that
\* of startAssemble), its range is [-2, totalSteps], and a change assigns
\* the picked value to task.currentStep.

\* The messages of a run the user scrubs through.
SceneMessages ==
    { Msg("status", "complete", 0), Msg("data", "input", 2),
      Msg("data", "transformation", 1) }

\* The slider is enabled.
SliderEnabled == runs >= 1

\* The values the slider offers.
SliderValues == -2..totalSteps

\* onChange(value)
Scrub(value) ==
    /\ SliderEnabled
    /\ value \in SliderValues
    /\ SetCurrentStep(value)

NextScene ==
    \/ \E settings \in SettingsSet, opens \in BOOLEAN :
          StartAssemble(settings, opens) /\ UNCHANGED sceneVars
    \/ \E r \in 1..MaxRuns, m \in SceneMessages :
          Deliver(r, m) /\ UNCHANGED sceneVars
    \/ \E value \in SliderValues : Scrub(value) /\ UNCHANGED sceneVars

SpecScene == Init /\ [][NextScene]_vars

\* ------------------------------------------------------------- helpers

Range(f) == { f[x] : x \in DOMAIN f }

Running == {"REQUESTED", "QUEUED", "PROGRESSING"}

\* The position of a status in INIT -> REQUESTED -> QUEUED -> PROGRESSING
\* -> {COMPLETED | FAILED}.
Rank(s) ==
    CASE s = "INIT" -> 0
      [] s = "REQUESTED" -> 1
      [] s = "QUEUED" -> 2
      [] s = "PROGRESSING" -> 3
      [] s = "COMPLETED" -> 4
      [] s = "FAILED" -> 4

\* This step is a startAssemble call that was accepted.
AcceptedStart ==
    /\ ~(status \in Running)
    /\ \E settings \in SettingsSet, opens \in BOOLEAN : StartAssemble(settings, opens)

\* -------------------------------------------------------------- claims

\* C1: a startAssemble call made while the status is REQUESTED, QUEUED or
\* PROGRESSING throws, leaves status, histories, cursor and totalSteps (and
\* every other field) unchanged, emits nothing and opens no exchange.
C1_RejectedStartChangesNothing ==
    [][ \A settings \in SettingsSet, opens \in BOOLEAN :
          (status \in Running /\ StartAssemble(settings, opens))
            => /\ lastOp' = Op("startAssemble", TRUE)
               /\ UNCHANGED taskVars
               /\ emitted' = <<>>
               /\ loops' = loops
               /\ runs' = runs ]_vars

\* C1 witness: a start was rejected while a run with recorded history was
\* progressing and its exchange still open.
C1_Witness ==
    /\ lastOp = Op("startAssemble", TRUE)
    /\ emitted = <<>>
    /\ status = "PROGRESSING"
    /\ loops = {1}
    /\ Len(transformations) = 1

\* C2: at most one streaming exchange of the task is being consumed.
C2_AtMostOneExchange == Cardinality(loops) <= 1

\* C3: after the exchange threw when it was opened, or rejected while the
\* next message was awaited, the task is FAILED and statusUpdate(FAILED) was
\* emitted.
C3_RejectedExchangeFails ==
    (lastOp = Op("reject", TRUE)
       \/ (lastOp = Op("startAssemble", TRUE) /\ emitted # <<>>))
      => /\ status = "FAILED"
         /\ Ev("statusUpdate", "FAILED", <<>>) \in Range(emitted)

\* C4: once the loop of the latest run has handled a lifecycle "error", no
\* later message of that exchange changes the task or emits a notification.
C4_NothingAfterError ==
    [][ \A m \in Messages :
          (sawError /\ lastOp'.op = "msg" /\ Deliver(runs, m))
            => (UNCHANGED taskVars /\ emitted' = <<>>) ]_vars

\* C5: the status only moves forward in REQUESTED, QUEUED, PROGRESSING,
\* COMPLETED | FAILED, except by an accepted startAssemble call.
C5_StatusOnlyForward ==
    [][ status' # status => (Rank(status') > Rank(status) \/ AcceptedStart) ]_vars

\* C6: handling a message never throws.
C6_MessageProcessingNeverThrows == lastOp.op = "msg" => ~lastOp.threw

\* C7: the cursor is an integer in [-2, len(transformations) - 1].
C7_CursorInDomain ==
    /\ currentStep \in Int
    /\ -2 <= currentStep
    /\ currentStep <= Len(transformations) - 1

\* C7 witness: in a second run, the user scrubbed back from the last of two
\* recorded steps to the first.
C7_Witness ==
    /\ runs = 2
    /\ lastOp = Op("setStep", FALSE)
    /\ Len(transformations) = 2
    /\ currentStep = 0

\* C8: assigning a step below -2 or at least the history length throws,
\* keeps the cursor and emits nothing; assigning a step in
\* [-2, historyLength - 1] sets the cursor to it and emits exactly one step
\* notification carrying it and totalSteps.
C8_SetterContract ==
    [][ \A step \in StepInputs :
          (lastOp'.op = "setStep" /\ SetCurrentStep(step))
            => IF step < -2 \/ step >= Len(transformations)
               THEN /\ lastOp'.threw
                    /\ currentStep' = currentStep
                    /\ emitted' = <<>>
               ELSE /\ ~lastOp'.threw
                    /\ currentStep' = step
                    /\ emitted' = << Ev("step", "", << step, totalSteps >>) >> ]_vars

\* C8 witness: with two steps recorded the cursor was assigned -1.
C8_Witness ==
    /\ lastOp = Op("setStep", FALSE)
    /\ Len(transformations) = 2
    /\ currentStep = -1
    /\ emitted = << Ev("step", "", << -1, totalSteps >>) >>

\* C9: getTransformation(i, s) returns the identity pose for s = -2, the
\* inverse of initialTransformations[i] for s = -1, the stored entry
\* transformations[s][i] for a recorded step s, throws for s >= the history
\* length, and uses the cursor when s is left out; the call changes no state
\* of the task and emits nothing.
C9_QueryByStep ==
    /\ [] \A i \in FragmentIndices :
            /\ getTransformation(i, -2) = << [translation |-> <<0, 0, 0>>,
                                             quaternion |-> <<1, 0, 0, 0>>] >>
            /\ i + 1 <= Len(initial_transformations)
                 => getTransformation(i, -1) = << inverse(initial_transformations[i + 1]) >>
            /\ \A s \in 0..MaxHist :
                 IF s < Len(transformations)
                 THEN i + 1 <= Len(transformations[s + 1])
                        => getTransformation(i, s) = << transformations[s + 1][i + 1] >>
                 ELSE getTransformation(i, s) = <<>>
            /\ currentStep = -2 => getTransformationAtCursor(i) = << IdentityPose >>
            /\ (currentStep = -1 /\ i + 1 <= Len(initial_transformations))
                 => getTransformationAtCursor(i) = << inverse(initial_transformations[i + 1]) >>
            /\ (currentStep >= 0 /\ i + 1 <= Len(transformations[currentStep + 1]))
                 => getTransformationAtCursor(i) = << transformations[currentStep + 1][i + 1] >>
    /\ [][ lastOp'.op = "getTransformation"
             => (UNCHANGED << taskVars, runs, loops >> /\ emitted' = <<>>) ]_vars

\* C9 witness: a query returned while two steps were recorded, the cursor on
\* the first, and the stored pose of fragment 1 at step 0, its pose at step
\* -1 and the identity all differ.
C9_Witness ==
    /\ lastOp = Op("getTransformation", FALSE)
    /\ Len(transformations) = 2
    /\ currentStep = 0
    /\ getTransformation(1, 0) # getTransformation(1, -1)
    /\ getTransformation(1, 0) # getTransformation(1, -2)
    /\ getTransformation(1, -1) # getTransformation(1, -2)
    /\ getTransformation(1, -1) # <<>>

\* C10: handling a "transformation" message appends the raw poses to
\* originalTransformations and the poses raw_i.applyTransformation(
\* initialTransformations[i].inverse()) to transformations, moves the cursor
\* to the new last index and emits exactly one step notification with it.
C10_TransformationAppends ==
    [][ \A r \in 1..MaxRuns, k \in TransIds :
          (lastOp'.op = "msg" /\ Deliver(r, Msg("data", "transformation", k)))
            => /\ originalTransformations' =
                    Append(originalTransformations, PoseList(k))
               /\ Len(transformations') = Len(transformations) + 1
               /\ transformations'[Len(transformations')] =
                    [i \in 1..NumFrag |->
                        applyTransformation(PoseList(k)[i],
                                            inverse(initial_transformations[i]))]
               /\ SubSeq(transformations', 1, Len(transformations)) = transformations
               /\ currentStep' = Len(transformations') - 1
               /\ emitted' = << Ev("step", "", << Len(transformations') - 1,
                                                 totalSteps >>) >> ]_vars

\* The part of C10 the code keeps: when an initial pose is recorded for
\* every fragment of the message, the handler appends as C10 says.
TransformationAppendsAfterInput ==
    [][ \A r \in 1..MaxRuns, k \in TransIds :
          (lastOp'.op = "msg" /\ Len(initial_transformations) >= NumFrag
             /\ Deliver(r, Msg("data", "transformation", k)))
            => /\ originalTransformations' =
                    Append(originalTransformations, PoseList(k))
               /\ transformations' =
                    Append(transformations,
                           [i \in 1..NumFrag |->
                               applyTransformation(PoseList(k)[i],
                                                   inverse(initial_transformations[i]))])
               /\ currentStep' = Len(transformations') - 1
               /\ emitted' = << Ev("step", "", << Len(transformations') - 1,
                                                 totalSteps >>) >> ]_vars

\* The kinds of the messages logged since the last accepted start.
ReceivedKinds == [i \in 1..Len(received) |-> received[i].kind]

IsTransformation(m) == m.kind = "transformation"

\* The "transformation" messages recorded since the last accepted start.
RecordedMessages == SelectSeq(received, IsTransformation)

\* C12: in the exported document pred_trans_rots has one outer entry per
\* recorded step, in recording order; every outer entry has num_parts inner
\* entries; and the inner entry of step s and fragment i is the 7 numbers
\* tx, ty, tz, qw, qx, qy, qz of the raw pose reported for them.
C12_ExportedPredictions ==
    \A name \in ExportNames :
       LET doc == exportJson(name)
       IN  /\ Len(doc.pred_trans_rots) = Len(transformations)
           /\ Len(doc.pred_trans_rots) = Len(RecordedMessages)
           /\ \A s \in 1..Len(RecordedMessages) :
                 /\ Len(doc.pred_trans_rots[s]) = doc.num_parts
                 /\ \A i \in 1..doc.num_parts :
                       LET raw == PoseList(RecordedMessages[s].id)[i]
                       IN  doc.pred_trans_rots[s][i] =
                              << raw.translation[1], raw.translation[2],
                                 raw.translation[3], raw.quaternion[1],
                                 raw.quaternion[2], raw.quaternion[3],
                                 raw.quaternion[4] >>

\* C12 witness: the document was exported with two steps recorded whose raw
\* poses differ from each other and from the normalized poses.
C12_Witness ==
    /\ lastOp = Op("exportJson", FALSE)
    /\ Len(originalTransformations) = 2
    /\ originalTransformations[1] # originalTransformations[2]
    /\ originalTransformations[1] # transformations[1]
    /\ originalTransformations[2] # transformations[2]

\* C13: constructing a task throws when fewer than 2 files are given or the
\* first file's extension is neither obj nor ply; with 2 or more files that
\* all have the extension obj, or all ply, it succeeds with status INIT,
\* cursor -2, empty histories, one absent render handle per fragment and
\* pieces equal to the file names in order.
C13_ConstructorContract ==
    lastOp.op = "new" =>
       /\ (Len(meshesFile) < 2 \/ Extension(meshesFile[1]) \notin {OBJ, PLY})
             => lastOp.threw
       /\ (/\ Len(meshesFile) >= 2
           /\ \/ \A i \in 1..Len(meshesFile) : Extension(meshesFile[i]) = OBJ
              \/ \A i \in 1..Len(meshesFile) : Extension(meshesFile[i]) = PLY)
             => /\ ~lastOp.threw
                /\ status = "INIT"
                /\ currentStep = -2
                /\ transformations = <<>>
                /\ originalTransformations = <<>>
                /\ initial_transformations = <<>>
                /\ Len(meshObj) = Len(meshesFile)
                /\ \A i \in 1..Len(meshObj) : meshObj[i] = NullHandle
                /\ pieces = meshesFile

\* C13 witness: a task was constructed from three ply files, one of them
\* with two dots in its name.
C13_Witness ==
    /\ lastOp = Op("new", FALSE)
    /\ Len(meshesFile) = 3
    /\ meshesFile[1] = FileName("c", PLY)
    /\ meshesFile[3] = FileName("f", << "v", "2", "." >> \o PLY)
    /\ Len(pieces) = 3

\* C14: construction throws whenever some file's extension, the text after
\* the last dot of its name, differs from the first file's.
C14_MismatchedExtensionFails ==
    (/\ lastOp.op = "new"
     /\ \E i \in 1..Len(meshesFile) :
           Extension(meshesFile[i]) # Extension(meshesFile[1]))
      => lastOp.threw

\* C15: for every pose t with a unit quaternion, both
\* t.applyTransformation(t.inverse()) and t.inverse().applyTransformation(t)
\* are the identity pose ([0, 0, 0], [1, 0, 0, 0]).
C15_InverseCancels ==
    roundTrip # <<>>
      => /\ pose.quaternion \in UnitQuaternions
         /\ roundTrip[1] = [translation |-> <<0, 0, 0>>, quaternion |-> <<1, 0, 0, 0>>]
         /\ roundTrip[2] = [translation |-> <<0, 0, 0>>, quaternion |-> <<1, 0, 0, 0>>]

\* C15 witness: both products were computed for a pose that turns about the
\* y axis and moves along all three axes.
C15_Witness ==
    /\ lastOp = Op("roundTrip", FALSE)
    /\ roundTrip # <<>>
    /\ pose = [translation |-> <<1, -1, 1>>, quaternion |-> <<0, 0, -1, 0>>]

\* C16: a "fracture_segmentation" message handled while fewer than 6 steps
\* are recorded in the run overwrites fractureSurfaces with its payload and
\* emits one recvFractureSurfaces notification carrying it; handled while 6
\* or more are recorded it changes nothing and emits nothing.
C16_FractureGate ==
    [][ \A r \in 1..MaxRuns, k \in FractureIds :
          (lastOp'.op = "msg"
             /\ DeliverLong(r, Msg("data", "fracture_segmentation", k)))
            => IF Len(transformations) < 6
               THEN /\ fractureSurfaces' = PointsOf(k)
                    /\ emitted' = << Ev("recvFractureSurfaces", "", PointsOf(k)) >>
                    /\ UNCHANGED << status, initial_transformations,
                                    originalTransformations, transformations,
                                    pointClouds, currentStep, totalSteps,
                                    meshScale >>
               ELSE /\ UNCHANGED taskVars
                    /\ emitted' = <<>> ]_vars

\* C16 witness: a fracture segmentation was dropped with 6 steps recorded,
\* after an earlier one had been kept.
C16_Witness ==
    /\ lastOp = Op("msg", FALSE)
    /\ emitted = <<>>
    /\ status = "REQUESTED"
    /\ Len(transformations) = 6
    /\ fractureSurfaces = PointsOf(2)

\* C17: an accepted startAssemble call leaves transformations,
\* originalTransformations and initialTransformations empty, the cursor at
\* -2, totalSteps computed from the settings and the status REQUESTED; it
\* emits statusUpdate(REQUESTED) and then step(-2, totalSteps), nothing
\* else; and it opens one streaming exchange, of which no message has been
\* consumed when the call has done all this.
C17_AcceptedStartSequence ==
    [][ \A settings \in SettingsSet, opens \in BOOLEAN :
          (/\ status \notin {"REQUESTED", "QUEUED", "PROGRESSING"}
           /\ lastOp'.op = "startAssemble"
           /\ StartAssemble(settings, opens))
            => /\ transformations' = <<>>
               /\ originalTransformations' = <<>>
               /\ initial_transformations' = <<>>
               /\ currentStep' = -2
               /\ totalSteps' = settings.steps * settings.maxIterations
                                  + (IF settings.oneStepInit THEN 1 ELSE 0)
               /\ status' = "REQUESTED"
               /\ emitted' = << Ev("statusUpdate", "REQUESTED", <<>>),
                                Ev("step", "", << -2, totalSteps' >>) >>
               /\ runs' = runs + 1
               /\ loops \subseteq loops'
               /\ Cardinality(loops' \ loops) = (IF lastOp'.threw THEN 0 ELSE 1)
               /\ received' = received ]_vars

\* C17 witness: a second run was started on a task that holds the point
\* clouds of its first run, and its exchange is open.
C17_Witness ==
    /\ lastOp = Op("startAssemble", FALSE)
    /\ runs = 2
    /\ 2 \in loops
    /\ pointClouds # <<>>
    /\ initial_transformations = <<>>
    /\ emitted = << Ev("statusUpdate", "REQUESTED", <<>>),
                    Ev("step", "", << -2, totalSteps >>) >>

\* C18: handling an "input" message sets initialTransformations to one pose
\* per fragment, built from initial_translation[i] and initial_rotation[i],
\* sets pointClouds to the reported point clouds and the cursor to -1, and
\* emits one recvPointClouds notification and one step(-1, totalSteps)
\* notification; status, transformations and originalTransformations stay.
C18_InputHandled ==
    [][ \A r \in 1..MaxRuns, k \in InputIds :
          (lastOp'.op = "msg" /\ Deliver(r, Msg("data", "input", k)))
            => /\ Len(initial_transformations') = NumFrag
               /\ \A i \in 1..NumFrag :
                     initial_transformations'[i] =
                        [translation |-> InputData(k).initial_translation[i],
                         quaternion |-> InputData(k).initial_rotation[i]]
               /\ pointClouds' = InputData(k).pointclouds
               /\ currentStep' = -1
               /\ emitted' = << Ev("recvPointClouds", "", InputData(k).pointclouds),
                                Ev("step", "", << -1, totalSteps >>) >>
               /\ UNCHANGED << status, transformations,
                               originalTransformations, totalSteps >> ]_vars

\* C18 witness: an "input" message was handled while the run was
\* progressing with two steps recorded, and moved the cursor back to -1.
C18_Witness ==
    /\ lastOp = Op("msg", FALSE)
    /\ Len(emitted) = 2
    /\ emitted[1].name = "recvPointClouds"
    /\ status = "PROGRESSING"
    /\ Len(transformations) = 2
    /\ currentStep = -1

\* C19: a lifecycle "pending" message sets the status QUEUED and emits
\* statusUpdate(QUEUED); a lifecycle "generating" message sets the status
\* PROGRESSING and emits statusUpdate(PROGRESSING, currentStep + 1,
\* totalSteps) with the cursor as it is then; neither moves the cursor or
\* changes a history.
C19_LifecycleProgress ==
    [][ \A r \in 1..MaxRuns :
          /\ (lastOp'.op = "msg" /\ Deliver(r, Msg("status", "pending", 0)))
                => /\ status' = "QUEUED"
                   /\ emitted' = << Ev("statusUpdate", "QUEUED", <<>>) >>
                   /\ UNCHANGED << currentStep, transformations,
                                   originalTransformations,
                                   initial_transformations >>
          /\ (lastOp'.op = "msg" /\ Deliver(r, Msg("status", "generating", 0)))
                => /\ status' = "PROGRESSING"
                   /\ emitted' = << Ev("statusUpdate", "PROGRESSING",
                                       << currentStep + 1, totalSteps >>) >>
                   /\ UNCHANGED << currentStep, transformations,
                                   originalTransformations,
                                   initial_transformations >> ]_vars

\* C19 witness: "generating" was handled with two steps recorded and the
\* cursor scrubbed back to the first, and reported step 1.
C19_Witness ==
    /\ lastOp = Op("msg", FALSE)
    /\ status = "PROGRESSING"
    /\ Len(transformations) = 2
    /\ currentStep = 0
    /\ emitted = << Ev("statusUpdate", "PROGRESSING", << 1, totalSteps >>) >>

\* C20: over the lifetime of a task meshScale is assigned at most once from
\* a "mesh_scale" message and at most once by setObject.
C20_MeshScaleAssignedAtMostTwice ==
    /\ scaleWrites.backend <= 1
    /\ scaleWrites.client <= 1

\* C21: whatever the order of backend "mesh_scale" messages and completing
\* setObject calls, each of them leaves meshScale at the value it wrote (the
\* message its payload, setObject the largest extent and at least 1), nothing
\* else changes meshScale, every change is notified, and a meshScale
\* notification carries the value meshScale has after the step; so the last
\* writer wins and the last notification carries the value.
C21_LastWriteWins ==
    [][ /\ \A r \in 1..MaxRuns, v \in ScaleValues :
              lastOp'.op = "msg" /\ ScaleDeliver(r, Msg("data", "mesh_scale", v))
                 => meshScale' = v
        /\ \A index \in FragmentIndices, size \in ObjectSizes :
              ( /\ lastOp'.op = "setObject"
                /\ SetObject(index, size)
                /\ \A i \in 1..Len(meshObj') : meshObj'[i] # NullHandle )
                 => meshScale' = MaxSize(meshObj')
        /\ meshScale' # meshScale
              => /\ \/ \E r \in 1..MaxRuns, v \in ScaleValues :
                          ScaleDeliver(r, Msg("data", "mesh_scale", v))
                    \/ \E index \in FragmentIndices, size \in ObjectSizes :
                          SetObject(index, size)
                 /\ \E k \in 1..Len(emitted') :
                       emitted'[k] = Ev("meshScale", "", << meshScale' >>)
        /\ \A k \in 1..Len(emitted') :
              emitted'[k].name = "meshScale"
                 => emitted'[k].args = << meshScale' >>
      ]_vars

\* The backend's 2 replaced the 3 that setObject had written.
C21_Witness ==
    /\ scaleWrites.client >= 1
    /\ scaleWrites.backend >= 1
    /\ \A i \in 1..Len(meshObj) : meshObj[i] # NullHandle
    /\ MaxSize(meshObj) = 3
    /\ meshScale = 2
    /\ emitted = << Ev("meshScale", "", << 2 >>) >>

\* C22: once a startAssemble call was accepted, totalSteps is
\* steps * maxIterations + (1 if oneStepInit else 0) of the settings passed to
\* the latest accepted call, through every message, cursor assignment and
\* rejected call, and every step notification carries totalSteps.
C22_TotalStepsOfLatestStart ==
    /\ submitted.count > 0
          => totalSteps =
                submitted.passed.steps * submitted.passed.maxIterations
                   + (IF submitted.passed.oneStepInit THEN 1 ELSE 0)
    /\ \A k \in 1..Len(emitted) :
          emitted[k].name = "step" => emitted[k].args[2] = totalSteps

\* A transformation was recorded and notified in a second run whose total,
\* 7, includes the one-step initialisation.
C22_Witness ==
    /\ submitted.count = 2
    /\ submitted.passed.oneStepInit
    /\ totalSteps = 7
    /\ Len(transformations) = 1
    /\ emitted = << Ev("step", "", << 0, 7 >>) >>

\* The argument list is the remote-path form.
IsRemoteForm(args) ==
    /\ Len(args) = 4
    /\ args[1] = <<>>
    /\ args[2] = meshesFilePathOnServer
    /\ args[3] = OBJ

\* The argument list is the file form.
IsFileForm(args) ==
    /\ Len(args) = 4
    /\ args[1] = << meshesFile >>
    /\ args[2] = <<>>
    /\ args[3] = OBJ

C30_NoEmptyOptionalFieldSent ==
    submitted.count > 0
       => LET sent == submitted.args[4]
              passed == submitted.passed
          IN  /\ \A f \in OptionalFields \cap DOMAIN sent : sent[f] # ""
              /\ DOMAIN sent =
                    DOMAIN passed
                       \ { f \in OptionalFields \cap DOMAIN passed :
                               passed[f] = "" }
              /\ \A f \in DOMAIN sent : sent[f] = passed[f]

\* Settings with a LoRA checkpoint and an empty ckpt were sent: the first
\* kept, the second left out.
C30_Witness ==
    /\ submitted.count > 0
    /\ "ckpt" \in DOMAIN submitted.passed
    /\ submitted.passed["ckpt"] = ""
    /\ DOMAIN submitted.args[4] =
          {"samplePoints", "steps", "seed", "maxIterations", "oneStepInit",
           "sampleStrategy", "dataCollection", "loraCheckpoint"}
    /\ submitted.args[4]["loraCheckpoint"] = "lora"

C25_NotificationsShowState ==
    \A k \in 1..Len(emitted) :
       /\ emitted[k].name = "step"
             => emitted[k].args = << currentStep, totalSteps >>
       /\ emitted[k].name = "statusUpdate" => emitted[k].status = status

\* The start of a second run has just notified REQUESTED and step -2 while
\* the loop of the first run is still consuming.
C25_Witness ==
    /\ runs = 2
    /\ 1 \in loops
    /\ lastOp = Op("startAssemble", FALSE)
    /\ status = "REQUESTED"
    /\ currentStep = -2
    /\ Len(emitted) = 2
    /\ emitted[1].name = "statusUpdate"
    /\ emitted[2].name = "step"

\* C26: a FAILED task leaves FAILED only by a startAssemble call, and a
\* startAssemble call on a FAILED, COMPLETED or INIT task is accepted: it
\* leaves the task REQUESTED with empty histories and cursor -2 and makes one
\* more submit call.
C26_RetryOnlyByCaller ==
    [][ /\ (status = "FAILED" /\ status' # "FAILED")
              => lastOp'.op = "startAssemble"
        /\ \A settings \in SettingsSet, opens \in BOOLEAN :
              ( /\ status \in {"FAILED", "COMPLETED", "INIT"}
                /\ lastOp'.op = "startAssemble"
                /\ StartAssemble(settings, opens) )
                 => /\ status' = "REQUESTED"
                    /\ transformations' = <<>>
                    /\ originalTransformations' = <<>>
                    /\ currentStep' = -2
                    /\ runs' = runs + 1
                    /\ opens => (runs + 1) \in loops'
      ]_vars

\* C27: the two histories have the same length in every state; the entry a
\* step appends to transformations holds, for every fragment i, the raw pose
\* appended to originalTransformations composed with the inverse of the
\* initial pose of fragment i at that moment; and recorded entries keep
\* their values until the histories are emptied, also when new initial poses
\* arrive.
C27_NormalizedByInitialPoseInForce ==
    /\ [](Len(transformations) = Len(originalTransformations))
    /\ [][ LET n == Len(transformations)
          IN  /\ Len(transformations') = n + 1
                    => /\ Len(originalTransformations') = n + 1
                       /\ Len(transformations'[n + 1]) = NumFrag
                       /\ \A i \in 1..NumFrag :
                             transformations'[n + 1][i] =
                                applyTransformation(
                                    originalTransformations'[n + 1][i],
                                    inverse(initial_transformations[i]))
              /\ (n > 0 /\ Len(transformations') >= n)
                    => /\ SubSeq(transformations', 1, n) = transformations
                       /\ SubSeq(originalTransformations', 1, n) =
                             originalTransformations
        ]_vars

\* Two steps are recorded, and the first was normalized by an initial pose
\* that differs from the current one.
C27_Witness ==
    /\ Len(transformations) = 2
    /\ Len(initial_transformations) = NumFrag
    /\ transformations[1][1] #
          applyTransformation(originalTransformations[1][1],
                              inverse(initial_transformations[1]))
    /\ transformations[2][1] =
          applyTransformation(originalTransformations[2][1],
                              inverse(initial_transformations[1]))

\* C28: until the next accepted startAssemble call no recorded entry of
\* either history is removed, replaced or moved; the k-th entry of each is
\* the one built from the k-th "transformation" message handled since that
\* call; and getTransformations(i) is the list of fragment i's entries of
\* transformations, oldest first.
C28_HistoriesAppendOnly ==
    /\ [](/\ Len(transformations) = Len(RecordedMessages)
          /\ Len(originalTransformations) = Len(RecordedMessages)
          /\ \A k \in 1..Len(RecordedMessages), i \in 1..NumFrag :
                LET raw == PoseList(RecordedMessages[k].id)[i]
                IN  /\ originalTransformations[k][i] = raw
                    /\ transformations[k][i] =
                          applyTransformation(raw,
                              inverse(initial_transformations[i]))
          /\ \A index \in FragmentIndices :
                /\ Len(getTransformations(index)) = Len(transformations)
                /\ \A k \in 1..Len(transformations) :
                      getTransformations(index)[k] = transformations[k][index + 1])
    /\ [][ LET n == Len(transformations)
          IN  ( \/ Len(transformations') < n
                \/ SubSeq(transformations', 1, n) # transformations
                \/ Len(originalTransformations') < n
                \/ SubSeq(originalTransformations', 1, n) #
                      originalTransformations )
                 => (lastOp'.op = "startAssemble" /\ runs' = runs + 1)
        ]_vars

\* The caller read the poses of fragment 0 after two different steps were
\* recorded.
C28_Witness ==
    /\ lastOp.op = "getTransformations"
    /\ Len(RecordedMessages) = 2
    /\ RecordedMessages[1].id # RecordedMessages[2].id
    /\ getTransformations(0) = << transformations[1][1], transformations[2][1] >>
    /\ transformations[1][1] # transformations[2][1]

\* C29: setObject(i, handle) stores the handle for fragment i and leaves the
\* other handles alone; when every handle is then present it sets meshScale
\* to the larger of 1 and the largest extent of all fragments and emits
\* exactly one notification, meshScale with that value; while a handle is
\* absent it leaves meshScale alone and emits nothing.  So the value it
\* writes is at least 1.
C29_SetObjectContract ==
    [][ \A index \in FragmentIndices, size \in ObjectSizes :
          (lastOp'.op = "setObject" /\ SetObject(index, size))
             => /\ meshObj' = [meshObj EXCEPT ![index + 1] = Handle(size)]
                /\ IF \A i \in 1..Len(meshObj') : meshObj'[i] # NullHandle
                   THEN /\ meshScale' >= 1
                        /\ \A i \in 1..Len(meshObj') :
                              meshScale' >= meshObj'[i][1]
                        /\ \/ meshScale' = 1
                           \/ \E i \in 1..Len(meshObj') :
                                 meshScale' = meshObj'[i][1]
                        /\ emitted' = << Ev("meshScale", "", << meshScale' >>) >>
                   ELSE /\ meshScale' = meshScale
                        /\ emitted' = <<>>
      ]_vars

\* The last handle arrived after the backend had set the scale to 2; every
\* geometry is smaller than the unit, and setObject wrote 1.
C29_Witness ==
    /\ lastOp.op = "setObject"
    /\ scaleWrites.backend >= 1
    /\ scaleWrites.client = 1
    /\ \A i \in 1..Len(meshObj) : meshObj[i] = Handle(0)
    /\ meshScale = 1
    /\ emitted = << Ev("meshScale", "", << 1 >>) >>

\* q v q* written out: the vector v turned by the quaternion q.
Rotated(q, v) ==
    LET w == q[1]  x == q[2]  y == q[3]  z == q[4]
    IN  << (w * w + x * x - y * y - z * z) * v[1]
              + 2 * (x * y - w * z) * v[2] + 2 * (x * z + w * y) * v[3],
           2 * (x * y + w * z) * v[1]
              + (w * w - x * x + y * y - z * z) * v[2]
              + 2 * (y * z - w * x) * v[3],
           2 * (x * z - w * y) * v[1] + 2 * (y * z + w * x) * v[2]
              + (w * w - x * x - y * y + z * z) * v[3] >>

\* The Hamilton product p q, scalar first.
Hamilton(p, q) ==
    << p[1] * q[1] - p[2] * q[2] - p[3] * q[3] - p[4] * q[4],
       p[1] * q[2] + p[2] * q[1] + p[3] * q[4] - p[4] * q[3],
       p[1] * q[3] - p[2] * q[4] + p[3] * q[1] + p[4] * q[2],
       p[1] * q[4] + p[2] * q[3] - p[3] * q[2] + p[4] * q[1] >>

\* C31: a.applyTransformation(b) has the quaternion a.q * b.q (Hamilton
\* product, scalar first, in that order) and the translation
\* a.translation + rotate(a.q, b.translation), and the same holds for
\* b.applyTransformation(a) with the roles exchanged, so the two differ
\* whenever these values differ; a and b are what they were before.
C31_ComposeFormula ==
    /\ [](composed # <<>>
            => LET a == operands[1]
                   b == operands[2]
               IN  /\ composed.ab.quaternion = Hamilton(a.quaternion, b.quaternion)
                   /\ composed.ab.translation =
                         << a.translation[1] + Rotated(a.quaternion, b.translation)[1],
                            a.translation[2] + Rotated(a.quaternion, b.translation)[2],
                            a.translation[3] + Rotated(a.quaternion, b.translation)[3] >>
                   /\ composed.ba.quaternion = Hamilton(b.quaternion, a.quaternion)
                   /\ composed.ba.translation =
                         << b.translation[1] + Rotated(b.quaternion, a.translation)[1],
                            b.translation[2] + Rotated(b.quaternion, a.translation)[2],
                            b.translation[3] + Rotated(b.quaternion, a.translation)[3] >>
                   /\ ( /\ a.quaternion \in UnitQuaternions
                        /\ b.quaternion \in UnitQuaternions
                        /\ a.quaternion[1] = 0
                        /\ b.quaternion[1] = 0
                        /\ \E n \in 2..4 : a.quaternion[n] = 0 /\ b.quaternion[n] # 0 )
                         => composed.ab # composed.ba)
    /\ [][lastOp'.op = "compose" => operands' = operands]_vars

\* a turns by a quarter about x and b by a half about y, both move, and the
\* two orders give different poses.
C31_Witness ==
    /\ composed # <<>>
    /\ operands[1] = Transformation(<<0, 1, 0>>, <<1, 1, 0, 0>>)
    /\ operands[2] = Transformation(<<0, 0, 1>>, <<0, 0, 1, 0>>)
    /\ composed.ab = Transformation(<<0, -1, 0>>, <<0, 0, 1, 1>>)
    /\ composed.ab # composed.ba

\* C32: composition is associative:
\* a.applyTransformation(b).applyTransformation(c) equals
\* a.applyTransformation(b.applyTransformation(c)).
C32_ComposeAssociative ==
    composed # <<>> => composed.left = composed.right

\* Three poses with unit quaternions about three different axes, each
\* moving along another axis, were composed both ways.
C32_Witness ==
    /\ composed # <<>>
    /\ operands[1] = Transformation(<<1, 0, 0>>, <<0, 0, 1, 0>>)
    /\ operands[2] = Transformation(<<0, 1, 0>>, <<0, 0, 0, 1>>)
    /\ operands[3] = Transformation(<<0, 0, 1>>, <<0, 1, 0, 0>>)
    /\ composed.left = composed.right
    /\ composed.left # composed.ab

\* The stages of the lifecycle messages.
Stages == {"pending", "generating", "error", "complete"}

\* C33: a task that is QUEUED or PROGRESSING changes its status only in a
\* step that handles a lifecycle message; every other step (a rejected
\* startAssemble call, a payload message, a cursor assignment, a query, the
\* end or the failure of the exchange) and the absence of steps leave it
\* QUEUED or PROGRESSING, so nothing moves it to COMPLETED or FAILED when the
\* exchange is silent.
C33_NoTimeout ==
    [][ (status \in {"QUEUED", "PROGRESSING"} /\ status' # status)
           => /\ lastOp'.op = "msg"
              /\ \E r \in 1..MaxRuns, k \in Stages :
                    Deliver(r, Msg("status", k, 0))
      ]_vars

\* The exchange of a PROGRESSING run has ended without a lifecycle
\* "complete" or "error": the task is still PROGRESSING and no loop is left
\* to move it.
C33_Witness ==
    /\ status = "PROGRESSING"
    /\ loops = {}
    /\ lastOp.op = "end"

\* C34: an accepted startAssemble call leaves pointClouds, fractureSurfaces
\* and meshScale as they were, so right after it getPointCloud,
\* getFractureSurface and the pointclouds of exportJson answer as before the
\* call while gt_trans_rots and pred_trans_rots are empty; and this lasts
\* until an "input" message is handled: only an "input" message changes
\* pointClouds or fills the initial poses, only a "fracture_segmentation"
\* message changes fractureSurfaces, and no step is recorded while the
\* initial poses are missing.
C34_PointDataSurvivesRestart ==
    /\ [](Len(originalTransformations) > 0 => Len(initial_transformations) > 0)
    /\ [][ /\ (lastOp'.op = "startAssemble" /\ runs' = runs + 1)
                 => /\ UNCHANGED << pointClouds, fractureSurfaces, meshScale >>
                    /\ \A index \in FragmentIndices :
                          /\ getPointCloud(index)' = getPointCloud(index)
                          /\ getFractureSurface(index)' = getFractureSurface(index)
                    /\ \A name \in ExportNames :
                          /\ exportJson(name)'.pointclouds =
                                exportJson(name).pointclouds
                          /\ exportJson(name)'.mesh_scale =
                                exportJson(name).mesh_scale
                          /\ exportJson(name)'.gt_trans_rots = <<>>
                          /\ exportJson(name)'.pred_trans_rots = <<>>
           /\ ( \/ pointClouds' # pointClouds
                \/ /\ initial_transformations' # <<>>
                   /\ initial_transformations' # initial_transformations )
                 => \E r \in 1..MaxRuns, k \in LongInputIds :
                       DeliverLong(r, Msg("data", "input", k))
           /\ fractureSurfaces' # fractureSurfaces
                 => \E r \in 1..MaxRuns, k \in FractureIds :
                       DeliverLong(r, Msg("data", "fracture_segmentation", k))
        ]_vars

\* A second run was just started on a task that holds the point clouds and
\* fracture surfaces of the first.
C34_Witness ==
    /\ runs = 2
    /\ lastOp = Op("startAssemble", FALSE)
    /\ status = "REQUESTED"
    /\ initial_transformations = <<>>
    /\ getPointCloud(0) # <<>>
    /\ getFractureSurface(0) # <<>>
    /\ \A name \in ExportNames :
          /\ exportJson(name).pointclouds = pointClouds
          /\ exportJson(name).gt_trans_rots = <<>>
          /\ exportJson(name).pred_trans_rots = <<>>

\* C35: when every exchange ends, an 'assembling' flag that is true
\* becomes false again, also when the task was replaced from the gallery
\* during the run and when the exchange threw.
C35_AssemblingReturnsToFalse == assembling ~> ~assembling

\* C36: no value the step slider offers makes the cursor setter throw.
C36_ScrubNeverThrows == lastOp.op = "setStep" => ~lastOp.threw

\* C37: in every state getTransformation(i), the step left out, returns a
\* pose for every fragment index i, and the cursor is not -1 while there
\* are no initial poses.
C37_CursorCanBeQueried ==
    /\ \A index \in FragmentIndices : getTransformationAtCursor(index) # <<>>
    /\ currentStep = -1 => initial_transformations # <<>>

\* C38: the step a statusUpdate(PROGRESSING, step, totalSteps) notification
\* carries is the number of steps recorded so far, and lies in
\* [0, totalSteps].
C38_ProgressCountsRecordedSteps ==
    \A k \in 1..Len(emitted) :
       (emitted[k].name = "statusUpdate" /\ emitted[k].status = "PROGRESSING")
          => /\ emitted[k].args[1] = Len(transformations)
             /\ emitted[k].args[1] \in 0..totalSteps
             /\ emitted[k].args[2] = totalSteps

====
